---- MODULE Spec2Model ----
(***************************************************************************)
(* espanso daemon: start-up / shut-down protocol of `espanso daemon`.      *)
(*                                                                         *)
(* Source: src/espanso/src/cli/daemon/mod.rs                               *)
(*   daemon_main, terminate_worker_if_already_running, spawn_worker.       *)
(*                                                                         *)
(* Processes: NumDaemons runs of daemon_main against one runtime           *)
(* directory, the worker each of them spawns (worker d is the child of     *)
(* daemon d) and worker 0, a worker that may be left over from an earlier  *)
(* session.  Threads of a daemon: the main thread (pc), the                *)
(* worker-status-monitor thread (mon) and the IPC server (srv).            *)
(*                                                                         *)
(* The lock files (lock.rs), the Exit handler of the IPC server            *)
(* (daemon/ipc.rs) and the start-up of the worker are modelled from their  *)
(* documented contracts.                                                   *)
(***************************************************************************)
EXTENDS Integers, Sequences, FiniteSets, TLC

(* ------------------------------ bounds --------------------------------- *)
NumDaemons == 2
MaxIpcEvents == 2

(* ------------------------- program constants --------------------------- *)
Success == 0
ExitCodeUnwrapError == 100
AlreadyRunning == 1
RetryWindowMs == 3000
SleepMs == 200

(* Granularity of the clock of the model and the largest overshoot of one  *)
(* thread::sleep.                                                          *)
TickMs == SleepMs
JitterMs == TickMs

Daemons == 1..NumDaemons
Workers == 0..NumDaemons

(* Exit statuses a worker process can end with (a signal death has none).  *)
WorkerCodes == {0, 7}
(* Termination codes the IPC server of the daemon pushes for an Exit.      *)
IpcCodes == {0}

Free == <<"free", 0>>
ByDaemon(d) == <<"daemon", d>>
ByWorker(w) == <<"worker", w>>

VARIABLES
  pc,          \* position of the main thread of each daemon
  daemonLock,  \* holder of the `daemon` lock file: 0 (free) or a daemon
  workerLock,  \* holder of the `worker` lock file
  wstate,      \* worker process: none, starting, running, exited, killed,
               \* gone (ended, and nobody is left to wait for its status)
  wcode,       \* exit code of an exited worker
  elapsed,     \* now.elapsed() of the daemon, in ms
  wakeAt,      \* elapsed time at which the current sleep is over
  chan,        \* content of the exit-signal channel (exit_notify/exit_signal)
  exit_code,   \* local variable exit_code of daemon_main
  ret,         \* value returned by daemon_main (valid when pc = "returned")
  mon,         \* worker-status-monitor thread: none, waiting, done (it saw
               \* the exit status), failed (wait failed), panicked, dead
  srv,         \* IPC server of the daemon
  hist         \* observations (history) of each run of daemon_main

(* The runtime path resolver (espanso-path, helper.rs): one call of        *)
(* extract_runtime, its inputs and what it leaves behind.                  *)
VARIABLES
  rpc,                \* position of the call of extract_runtime
  force_runtime_dir,  \* the argument: "none" or the overriding directory
  established,        \* get_runtime_dir(): "none" or a directory
  portable,           \* is_portable_mode()
  portable_path,      \* get_portable_runtime_path(): "none" or a directory
  dirs,               \* the directories that exist on disk
  made,               \* the directories create_dir_all was called on
  runtime_dir,        \* the local variable runtime_dir of extract_runtime
  result              \* what the caller of extract_runtime receives

pathVars == <<rpc, force_runtime_dir, established, portable, portable_path,
              dirs, made, runtime_dir, result>>

daemonVars == <<pc, daemonLock, workerLock, wstate, wcode, elapsed, wakeAt,
                chan, exit_code, ret, mon, srv, hist>>

vars == <<pc, daemonLock, workerLock, wstate, wcode, elapsed, wakeAt, chan,
          exit_code, ret, mon, srv, hist, rpc, force_runtime_dir, established,
          portable, portable_path, dirs, made, runtime_dir, result>>

PanicStates == {"panic_client", "panic_timeout", "panic_spawn",
                "panic_thread", "panic_ipc"}

PcStates == {"start", "create_client", "probe", "probe_return", "send",
             "loop", "poll", "poll_return", "sleep", "spawn", "ipcinit",
             "wait", "break", "returned", "exited", "crashed"}
            \cup PanicStates

HistInit ==
  [ denied        |-> FALSE,  \* the daemon lock was denied
    clientCreated |-> FALSE,  \* create_ipc_client_to_worker returned
    first         |-> "none", \* outcome of the first acquire_worker_lock
    polls         |-> 0,      \* poll attempts of the call of
                              \* terminate_worker_if_already_running in progress
    pollAcquired  |-> FALSE,  \* a poll attempt got the lock
    exitSent      |-> 0,      \* calls of worker_ipc.send(Exit)
    sendRes       |-> "none", \* result of the send
    relInWindow   |-> FALSE,  \* the worker lock was released inside the window
    heldAtSpawn   |-> FALSE,  \* the daemon held the worker lock at spawn_worker
    spawnCalls    |-> 0,      \* calls of spawn_worker
    spawned       |-> 0,      \* worker processes created
    monitors      |-> 0,      \* monitor threads started
    serverStarted |-> FALSE,  \* ipc::initialize_and_spawn returned Ok
    served        |-> 0,      \* Exit events received while serving
    sentLog       |-> <<>>,   \* every value put on the channel, in order
    early         |-> FALSE,  \* the monitor sent before the main loop began
    received      |-> <<>>,   \* every value the main loop took
    recvErr       |-> FALSE   \* the main loop got a channel error
  ]

DaemonInit ==
  /\ pc = [d \in Daemons |-> "start"]
  /\ daemonLock = 0
  /\ \E old \in BOOLEAN :
       /\ wstate = [w \in Workers |-> IF w = 0 /\ old THEN "running" ELSE "none"]
       /\ workerLock = IF old THEN ByWorker(0) ELSE Free
  /\ wcode = [w \in Workers |-> 0]
  /\ elapsed = [d \in Daemons |-> 0]
  /\ wakeAt = [d \in Daemons |-> 0]
  /\ chan = [d \in Daemons |-> <<>>]
  /\ exit_code = [d \in Daemons |-> Success]
  /\ ret = [d \in Daemons |-> 0]
  /\ mon = [d \in Daemons |-> "none"]
  /\ srv = [d \in Daemons |-> "none"]
  /\ hist = [d \in Daemons |-> HistInit]

(* ------------------------------ helpers -------------------------------- *)
H(d, f, v) == hist' = [hist EXCEPT ![d][f] = v]

(* The main thread panicked: the stack unwinds, the process ends and takes *)
(* its threads with it; the lock handle in scope is dropped.               *)
Panicked(d) == pc[d] \in PanicStates

(* The process of daemon d exists (its threads can run).                   *)
ProcAlive(d) == pc[d] \notin ({"start", "exited", "crashed"} \cup PanicStates)

(* Mutant: the receiver exists only once the main loop waits on it.       *)
ReceiverAlive_OnlyWaiting(d) == pc[d] \in {"wait", "break"}

(* exit_signal, the receiver, exists from line 79 until daemon_main ends.  *)
ReceiverAlive(d) == pc[d] \in {"ipcinit", "wait", "break"}

WorkerUp(w) == wstate[w] \in {"starting", "running"}

HSet(d, r) == hist' = [hist EXCEPT ![d] = r]

(* --------------------------- Lock Manager ------------------------------ *)
(* acquire_daemon_lock / acquire_worker_lock: a non-blocking exclusive     *)
(* lock on a file of the runtime directory; Some(handle) when nobody holds *)
(* it, None otherwise.                                                     *)
WorkerLockFree_Always == TRUE  \* mutant: the lock never denies

DaemonLockFree == daemonLock = 0
WorkerLockFree == workerLock = Free

(* ------------------------- daemon_main, 59-77 -------------------------- *)
(* Mutant: the denial is reported but daemon_main goes on.                 *)
DaemonLockDenied_GoesOn(d) ==
  /\ ~DaemonLockFree
  /\ pc' = [pc EXCEPT ![d] = "create_client"]
  /\ H(d, "denied", TRUE)
  /\ UNCHANGED <<daemonLock, ret>>

(* lines 63-67: the daemon lock is held by somebody else: return 1.        *)
DaemonLockDenied(d) ==
  /\ ~DaemonLockFree
  /\ pc' = [pc EXCEPT ![d] = "returned"]
  /\ ret' = [ret EXCEPT ![d] = AlreadyRunning]
  /\ H(d, "denied", TRUE)
  /\ UNCHANGED <<daemonLock>>

(* Mutant: the handle is dropped at once (it is bound to no variable).     *)
DaemonLockGranted_Dropped(d) ==
  /\ DaemonLockFree
  /\ pc' = [pc EXCEPT ![d] = "create_client"]
  /\ UNCHANGED <<daemonLock, ret, hist>>

(* line 63: the lock is granted; lock_file lives until daemon_main ends.   *)
DaemonLockGranted(d) ==
  /\ DaemonLockFree
  /\ daemonLock' = d
  /\ pc' = [pc EXCEPT ![d] = "create_client"]
  /\ UNCHANGED <<ret, hist>>

(* Runs are numbered in the order they start.  A run starts while the     *)
(* runs before it are inside daemon_main or their processes are over: the  *)
(* short rest of a process between the end of daemon_main and its exit     *)
(* shares nothing with a later run but the worker, which ends on its own.  *)
MayStart(d) ==
  \A e \in Daemons :
    e < d => pc[e] \notin ({"start", "returned"} \cup PanicStates)

AcquireDaemonLock(d) ==
  /\ pc[d] = "start"
  /\ MayStart(d)
  /\ DaemonLockDenied(d) \/ DaemonLockGranted(d)
  /\ UNCHANGED <<workerLock, wstate, wcode, elapsed, wakeAt, chan, exit_code,
                 mon, srv>>
  /\ UNCHANGED pathVars

(* lines 74-75: create_ipc_client_to_worker(..).expect(..).                *)
CreateIpcClient(d) ==
  /\ pc[d] = "create_client"
  /\ \E ok \in BOOLEAN :
       IF ok
         THEN /\ pc' = [pc EXCEPT ![d] = "probe"]
              /\ H(d, "clientCreated", TRUE)
              /\ UNCHANGED daemonLock
         ELSE /\ pc' = [pc EXCEPT ![d] = "panic_client"]
              /\ daemonLock' = 0
              /\ UNCHANGED hist
  /\ UNCHANGED <<workerLock, wstate, wcode, elapsed, wakeAt, chan, exit_code,
                 ret, mon, srv>>
  /\ UNCHANGED pathVars

(* ------------- terminate_worker_if_already_running, 112-139 ------------ *)
(* Mutant: the early return of line 115 is missing.                        *)
FirstAcquired_NoReturn(d) ==
  /\ WorkerLockFree
  /\ workerLock' = ByDaemon(d)
  /\ pc' = [pc EXCEPT ![d] = "send"]
  /\ HSet(d, [hist[d] EXCEPT !.first = "acquired"])

(* lines 113-116: the first acquire_worker_lock succeeds: return (the      *)
(* handle is dropped by the return, see ReturnFromTerminate).              *)
FirstAcquired(d) ==
  /\ WorkerLockFree
  /\ workerLock' = ByDaemon(d)
  /\ pc' = [pc EXCEPT ![d] = "probe_return"]
  /\ HSet(d, [hist[d] EXCEPT !.first = "acquired"])

(* Mutant: the test of line 114 is inverted; a denial returns.             *)
FirstDenied_Returns(d) ==
  /\ ~WorkerLockFree
  /\ pc' = [pc EXCEPT ![d] = "probe_return"]
  /\ HSet(d, [hist[d] EXCEPT !.first = "denied"])
  /\ UNCHANGED workerLock

(* lines 113-118: the first acquire_worker_lock is denied: go on to send.  *)
FirstDenied(d) ==
  /\ ~WorkerLockFree
  /\ pc' = [pc EXCEPT ![d] = "send"]
  /\ HSet(d, [hist[d] EXCEPT !.first = "denied"])
  /\ UNCHANGED workerLock

ProbeWorkerLock(d) ==
  /\ pc[d] = "probe"
  /\ FirstAcquired(d) \/ FirstDenied(d)
  /\ UNCHANGED <<daemonLock, wstate, wcode, elapsed, wakeAt, chan, exit_code,
                 ret, mon, srv>>
  /\ UNCHANGED pathVars

(* lines 119-126: worker_ipc.send(IPCEvent::Exit); an error is logged and  *)
(* nothing else; then now = Instant::now().                                *)
SendExit_AbortsOnErr(d) ==
  /\ pc[d] = "send"
  /\ \E ok \in BOOLEAN :
       /\ HSet(d, [hist[d] EXCEPT !.exitSent = @ + 1,
                                  !.sendRes = IF ok THEN "ok" ELSE "err"])
       /\ pc' = [pc EXCEPT ![d] = IF ok THEN "loop" ELSE "panic_timeout"]
  /\ elapsed' = [elapsed EXCEPT ![d] = 0]
  /\ UNCHANGED <<daemonLock, workerLock, wstate, wcode, wakeAt, chan,
                 exit_code, ret, mon, srv>>
  /\ UNCHANGED pathVars

SendExit(d) ==
  /\ pc[d] = "send"
  /\ \E ok \in BOOLEAN :
       HSet(d, [hist[d] EXCEPT !.exitSent = @ + 1,
                               !.sendRes = IF ok THEN "ok" ELSE "err"])
  /\ elapsed' = [elapsed EXCEPT ![d] = 0]
  /\ pc' = [pc EXCEPT ![d] = "loop"]
  /\ UNCHANGED <<daemonLock, workerLock, wstate, wcode, wakeAt, chan,
                 exit_code, ret, mon, srv>>
  /\ UNCHANGED pathVars

(* Mutant: the window is twice as long.                                    *)
WindowOpen_Twice(e) == e < RetryWindowMs + RetryWindowMs

(* line 127: the loop condition now.elapsed() < 3 s.                       *)
WindowOpen(e) == e < RetryWindowMs

(* Mutant: the panic after the loop is missing.                            *)
LoopCheck_NoPanic(d) ==
  /\ pc[d] = "loop"
  /\ pc' = [pc EXCEPT ![d] = IF WindowOpen(elapsed[d]) THEN "poll" ELSE "spawn"]
  /\ UNCHANGED <<daemonLock, workerLock, wstate, wcode, elapsed, wakeAt, chan,
                 exit_code, ret, mon, srv, hist>>
  /\ UNCHANGED pathVars

(* lines 127, 136-138: the loop is entered, or left into the panic.        *)
LoopCheck(d) ==
  /\ pc[d] = "loop"
  /\ IF WindowOpen(elapsed[d])
       THEN /\ pc' = [pc EXCEPT ![d] = "poll"]
            /\ UNCHANGED daemonLock
       ELSE /\ pc' = [pc EXCEPT ![d] = "panic_timeout"]
            /\ daemonLock' = 0
  /\ UNCHANGED <<workerLock, wstate, wcode, elapsed, wakeAt, chan, exit_code,
                 ret, mon, srv, hist>>
  /\ UNCHANGED pathVars

(* Mutant: the return of line 130 is missing; the loop goes on.            *)
PollAcquired_NoReturn(d) ==
  /\ WorkerLockFree
  /\ workerLock' = ByDaemon(d)
  /\ pc' = [pc EXCEPT ![d] = "sleep"]
  /\ wakeAt' = [wakeAt EXCEPT ![d] = elapsed[d] + SleepMs]
  /\ H(d, "pollAcquired", TRUE)

(* lines 128-131: a poll attempt gets the lock: return.                    *)
PollAcquired(d) ==
  /\ WorkerLockFree
  /\ workerLock' = ByDaemon(d)
  /\ pc' = [pc EXCEPT ![d] = "poll_return"]
  /\ HSet(d, [hist[d] EXCEPT !.polls = @ + 1, !.pollAcquired = TRUE])
  /\ UNCHANGED wakeAt

(* lines 128-133: a poll attempt is denied: sleep 200 ms.                  *)
PollDenied(d) ==
  /\ ~WorkerLockFree
  /\ pc' = [pc EXCEPT ![d] = "sleep"]
  /\ wakeAt' = [wakeAt EXCEPT ![d] = elapsed[d] + SleepMs]
  /\ H(d, "polls", hist[d].polls + 1)
  /\ UNCHANGED workerLock

PollWorkerLock(d) ==
  /\ pc[d] = "poll"
  /\ PollAcquired(d) \/ PollDenied(d)
  /\ UNCHANGED <<daemonLock, wstate, wcode, elapsed, chan, exit_code, ret,
                 mon, srv>>
  /\ UNCHANGED pathVars

(* line 133: thread::sleep returns once at least 200 ms went by.           *)
WakeUp(d) ==
  /\ pc[d] = "sleep"
  /\ elapsed[d] >= wakeAt[d]
  /\ pc' = [pc EXCEPT ![d] = "loop"]
  /\ UNCHANGED <<daemonLock, workerLock, wstate, wcode, elapsed, wakeAt, chan,
                 exit_code, ret, mon, srv, hist>>
  /\ UNCHANGED pathVars

(* Time goes by while a daemon sleeps; every other step of the retry loop  *)
(* takes no time at this scale.  A sleep overshoots by at most JitterMs.   *)
Sleeping == {d \in Daemons : pc[d] = "sleep"}

Tick ==
  /\ Sleeping # {}
  /\ \A d \in Sleeping : elapsed[d] < wakeAt[d] + JitterMs
  /\ elapsed' = [d \in Daemons |->
                   IF d \in Sleeping THEN elapsed[d] + TickMs ELSE elapsed[d]]
  /\ UNCHANGED <<pc, daemonLock, workerLock, wstate, wcode, wakeAt, chan,
                 exit_code, ret, mon, srv, hist>>
  /\ UNCHANGED pathVars

(* lines 115, 130: `return` drops lock_file, which frees the worker lock   *)
(* (and now, which ends the measurement of elapsed time).                  *)
DropWorkerLock_Leaked(d) == workerLock  \* mutant: the handle outlives the call

DropWorkerLock(d) == IF workerLock = ByDaemon(d) THEN Free ELSE workerLock

ReturnFromTerminate(d) ==
  /\ pc[d] \in {"probe_return", "poll_return"}
  /\ workerLock' = DropWorkerLock(d)
  /\ pc' = [pc EXCEPT ![d] = "spawn"]
  /\ elapsed' = [elapsed EXCEPT ![d] = 0]
  /\ wakeAt' = [wakeAt EXCEPT ![d] = 0]
  /\ H(d, "polls", 0)
  /\ UNCHANGED <<daemonLock, wstate, wcode, chan, exit_code, ret, mon, srv>>
  /\ UNCHANGED pathVars

(* ------------------------- spawn_worker, 141-193 ----------------------- *)
(* lines 79-83, 141-192: the channel is made and spawn_worker is called.   *)
(* Command::spawn (or current_exe) fails: panic before any child exists.   *)
SpawnFails(d) ==
  /\ pc' = [pc EXCEPT ![d] = "panic_spawn"]
  /\ daemonLock' = 0
  /\ HSet(d, [hist[d] EXCEPT !.spawnCalls = @ + 1,
                             !.heldAtSpawn = (workerLock = ByDaemon(d))])
  /\ UNCHANGED <<wstate, mon>>

(* line 170 succeeds, lines 174-192 fail: the child runs, the daemon       *)
(* panics without a monitor thread.                                        *)
MonitorThreadFails(d) ==
  /\ pc' = [pc EXCEPT ![d] = "panic_thread"]
  /\ daemonLock' = 0
  /\ wstate' = [wstate EXCEPT ![d] = "starting"]
  /\ HSet(d, [hist[d] EXCEPT !.spawnCalls = @ + 1, !.spawned = @ + 1,
                             !.heldAtSpawn = (workerLock = ByDaemon(d))])
  /\ UNCHANGED <<mon>>

(* Mutant: spawn_worker is called again after it succeeded.                *)
SpawnSucceeds_KeepsSpawning(d) ==
  /\ pc' = [pc EXCEPT ![d] = "spawn"]
  /\ wstate' = [wstate EXCEPT ![d] = "starting"]
  /\ mon' = [mon EXCEPT ![d] = "waiting"]
  /\ HSet(d, [hist[d] EXCEPT !.spawnCalls = @ + 1, !.spawned = @ + 1,
                             !.monitors = @ + 1,
                             !.heldAtSpawn = (workerLock = ByDaemon(d))])
  /\ UNCHANGED <<daemonLock>>

(* lines 170-192 succeed: the child runs and the monitor thread, which     *)
(* owns a clone of the sender, waits for it.                               *)
SpawnSucceeds(d) ==
  /\ pc' = [pc EXCEPT ![d] = "ipcinit"]
  /\ wstate' = [wstate EXCEPT ![d] = "starting"]
  /\ mon' = [mon EXCEPT ![d] = "waiting"]
  /\ HSet(d, [hist[d] EXCEPT !.spawnCalls = @ + 1, !.spawned = @ + 1,
                             !.monitors = @ + 1,
                             !.heldAtSpawn = (workerLock = ByDaemon(d))])
  /\ UNCHANGED <<daemonLock>>

SpawnWorker(d) ==
  /\ pc[d] = "spawn"
  /\ SpawnSucceeds(d) \/ SpawnFails(d) \/ MonitorThreadFails(d)
  /\ UNCHANGED <<workerLock, wcode, elapsed, wakeAt, chan, exit_code, ret,
                 srv>>
  /\ UNCHANGED pathVars

(* A thread of a process that ends, ends with it.                          *)
Killed(t) == IF t \in {"waiting", "running"} THEN "dead" ELSE t

(* lines 85-86: ipc::initialize_and_spawn(..).expect(..); the server owns  *)
(* exit_notify from here on.                                               *)
IpcInit(d) ==
  /\ pc[d] = "ipcinit"
  /\ \E ok \in BOOLEAN :
       IF ok
         THEN /\ pc' = [pc EXCEPT ![d] = "wait"]
              /\ srv' = [srv EXCEPT ![d] = "running"]
              /\ H(d, "serverStarted", TRUE)
              /\ UNCHANGED <<daemonLock, mon>>
         ELSE /\ pc' = [pc EXCEPT ![d] = "panic_ipc"]
              /\ daemonLock' = 0
              /\ mon' = [mon EXCEPT ![d] = Killed(@)]
              /\ UNCHANGED <<srv, hist>>
  /\ UNCHANGED <<workerLock, wstate, wcode, elapsed, wakeAt, chan, exit_code,
                 ret>>
  /\ UNCHANGED pathVars

(* --------------------- exit-signal channel (crossbeam) ----------------- *)
(* Every Sender is gone: the monitor thread ended (its clone, line 83) and *)
(* the IPC server no longer runs (exit_notify itself, line 85).            *)
Disconnected(d) == mon[d] # "waiting" /\ srv[d] # "running"

(* recv() returns when a value is buffered or the channel is disconnected. *)
CanRecv(d) == chan[d] # <<>> \/ Disconnected(d)

(* Mutant: the newest buffered value is taken instead of the oldest.       *)
RecvCode_Newest(ch) == IF ch # <<>> THEN ch[Len(ch)] ELSE ExitCodeUnwrapError

(* Mutant: a channel error leaves exit_code at its initial value.          *)
RecvCode_ErrIgnored(ch) == IF ch # <<>> THEN Head(ch) ELSE Success

(* lines 94-103: Ok(code) => code, Err(_) => ExitCodeUnwrapError.          *)
RecvCode(ch) == IF ch # <<>> THEN Head(ch) ELSE ExitCodeUnwrapError

(* lines 92-104: the select! of the main loop takes one message; break.    *)
Recv(d) ==
  /\ pc[d] = "wait"
  /\ CanRecv(d)
  /\ exit_code' = [exit_code EXCEPT ![d] = RecvCode(chan[d])]
  /\ chan' = [chan EXCEPT ![d] = IF @ # <<>> THEN Tail(@) ELSE @]
  /\ pc' = [pc EXCEPT ![d] = "break"]
  /\ HSet(d, IF chan[d] # <<>>
               THEN [hist[d] EXCEPT !.received = Append(@, Head(chan[d]))]
               ELSE [hist[d] EXCEPT !.recvErr = TRUE])
  /\ UNCHANGED <<daemonLock, workerLock, wstate, wcode, elapsed, wakeAt, ret,
                 mon, srv>>
  /\ UNCHANGED pathVars

(* Mutant: daemon_main returns Success whatever was received.              *)
Return_Success(d) ==
  /\ pc[d] = "break"
  /\ ret' = [ret EXCEPT ![d] = Success]
  /\ pc' = [pc EXCEPT ![d] = "returned"]
  /\ daemonLock' = IF daemonLock = d THEN 0 ELSE daemonLock
  /\ UNCHANGED <<workerLock, wstate, wcode, elapsed, wakeAt, chan, exit_code,
                 mon, srv, hist>>
  /\ UNCHANGED pathVars

(* line 109: daemon_main returns exit_code; lock_file (the daemon lock)    *)
(* and exit_signal (the receiver) are dropped.                             *)
Return(d) ==
  /\ pc[d] = "break"
  /\ ret' = [ret EXCEPT ![d] = exit_code[d]]
  /\ pc' = [pc EXCEPT ![d] = "returned"]
  /\ daemonLock' = IF daemonLock = d THEN 0 ELSE daemonLock
  /\ UNCHANGED <<workerLock, wstate, wcode, elapsed, wakeAt, chan, exit_code,
                 mon, srv, hist>>
  /\ UNCHANGED pathVars

(* The process is over: the caller of daemon_main ends it with the         *)
(* returned code, or the panic has ended it.  Its threads and its channel  *)
(* are gone, nobody waits for its child any more, and what was observed of *)
(* the run is dropped with it.                                             *)
ProcessExit(d) ==
  /\ pc[d] \in {"returned"} \cup PanicStates
  /\ pc' = [pc EXCEPT ![d] = IF Panicked(d) THEN "crashed" ELSE "exited"]
  /\ mon' = [mon EXCEPT ![d] = "none"]
  /\ srv' = [srv EXCEPT ![d] = "none"]
  /\ chan' = [chan EXCEPT ![d] = <<>>]
  /\ exit_code' = [exit_code EXCEPT ![d] = Success]
  /\ ret' = [ret EXCEPT ![d] = 0]
  /\ elapsed' = [elapsed EXCEPT ![d] = 0]
  /\ wakeAt' = [wakeAt EXCEPT ![d] = 0]
  /\ wstate' = [wstate EXCEPT ![d] = IF @ \in {"exited", "killed"} THEN "gone" ELSE @]
  /\ wcode' = [wcode EXCEPT ![d] = 0]
  /\ hist' = [hist EXCEPT ![d] = HistInit]
  /\ UNCHANGED <<daemonLock, workerLock>>
  /\ UNCHANGED pathVars

(* ----------------- worker-status-monitor thread, 176-191 --------------- *)
(* Mutant: the test code != 0 of line 180 is missing.                      *)
MonitorForwards_AnyCode(waitOk, hasCode, code) == waitOk /\ hasCode

(* Mutant: a status without a code is forwarded too.                       *)
MonitorForwards_NoStatusCheck(waitOk, hasCode, code) ==
  waitOk /\ (hasCode => code # 0)

(* lines 178-180: what of the result of child.wait() is forwarded.         *)
MonitorForwards(waitOk, hasCode, code) == waitOk /\ hasCode /\ code # 0

(* lines 185-187: exit_notify.send(code).expect(..): the value is buffered *)
(* while the receiver exists; otherwise send fails and the thread panics.  *)
MonitorSend(d, code) ==
  IF ReceiverAlive(d)
    THEN /\ chan' = [chan EXCEPT ![d] = Append(@, code)]
         /\ mon' = [mon EXCEPT ![d] = "done"]
         /\ HSet(d, [hist[d] EXCEPT !.sentLog = Append(@, <<"mon", code>>),
                                    !.early = (pc[d] = "ipcinit")])
    ELSE /\ mon' = [mon EXCEPT ![d] = "panicked"]
         /\ UNCHANGED <<chan, hist>>

(* lines 177-190: child.wait() returns after the child ended.              *)
MonitorWait(d) ==
  /\ mon[d] = "waiting"
  /\ ProcAlive(d)
  /\ wstate[d] \in {"exited", "killed"}
  /\ IF MonitorForwards(TRUE, wstate[d] = "exited", wcode[d])
       THEN MonitorSend(d, wcode[d])
       ELSE /\ mon' = [mon EXCEPT ![d] = "done"]
            /\ UNCHANGED <<chan, hist>>
  /\ UNCHANGED <<pc, daemonLock, workerLock, wstate, wcode, elapsed, wakeAt,
                 exit_code, ret, srv>>
  /\ UNCHANGED pathVars

(* line 177: child.wait() returns Err: nothing is sent, the thread ends.   *)
(* (wait blocks while the child runs and retries when interrupted: it      *)
(* fails only once the child is gone, its status being lost.)              *)
MonitorWaitFails(d) ==
  /\ mon[d] = "waiting"
  /\ ProcAlive(d)
  /\ wstate[d] \in {"exited", "killed"}
  /\ ~MonitorForwards(FALSE, wstate[d] = "exited", wcode[d])
  /\ mon' = [mon EXCEPT ![d] = "failed"]
  /\ UNCHANGED <<pc, daemonLock, workerLock, wstate, wcode, elapsed, wakeAt,
                 chan, exit_code, ret, srv, hist>>
  /\ UNCHANGED pathVars

(* ------------------------ IPC server of the daemon --------------------- *)
(* The callback registered by ipc::initialize_and_spawn: on Exit, push a   *)
(* termination code onto the exit-signal channel.                          *)
IpcPush_Twice(ch, c) == Append(Append(ch, c), c)  \* mutant: pushes twice

IpcPush(ch, c) == Append(ch, c)

(* An Exit event reaches the server while the receiver exists.  (Once     *)
(* daemon_main has returned the send finds no receiver and leaves no      *)
(* trace.)                                                                 *)
IpcOnExit(d) ==
  /\ srv[d] = "running"
  /\ ProcAlive(d)
  /\ ReceiverAlive(d)
  /\ hist[d].served < MaxIpcEvents
  /\ \E c \in IpcCodes :
       /\ chan' = [chan EXCEPT ![d] = IpcPush(@, c)]
       /\ HSet(d, [hist[d] EXCEPT !.served = @ + 1,
                     !.sentLog = Append(@, <<"ipc", c>>)])
  /\ UNCHANGED <<pc, daemonLock, workerLock, wstate, wcode, elapsed, wakeAt,
                 exit_code, ret, mon, srv>>
  /\ UNCHANGED pathVars

(* The server thread ends (its endpoint fails): its sender is dropped.     *)
IpcServerStops(d) ==
  /\ srv[d] = "running"
  /\ ProcAlive(d)
  /\ srv' = [srv EXCEPT ![d] = "stopped"]
  /\ UNCHANGED <<pc, daemonLock, workerLock, wstate, wcode, elapsed, wakeAt,
                 chan, exit_code, ret, mon, hist>>
  /\ UNCHANGED pathVars

(* ------------------------------- workers ------------------------------- *)
(* A worker that started takes the worker lock for itself.                 *)
WorkerAcquireLock(w) ==
  /\ wstate[w] = "starting"
  /\ WorkerLockFree
  /\ workerLock' = ByWorker(w)
  /\ wstate' = [wstate EXCEPT ![w] = "running"]
  /\ UNCHANGED <<pc, daemonLock, wcode, elapsed, wakeAt, chan, exit_code, ret,
                 mon, srv, hist>>
  /\ UNCHANGED pathVars

(* The daemons for which a release of the worker lock falls inside the     *)
(* retry window: polling, and less than 3 s after now.                     *)
InWindow(d) == pc[d] \in {"loop", "poll", "sleep"} /\ elapsed[d] < RetryWindowMs

(* A worker process ends, for whatever reason (an Exit event, a failure,   *)
(* a signal); the lock it holds is freed.                                  *)
Waited(w) == w \in Daemons /\ mon[w] = "waiting"

WorkerEnds(w, how, c) ==
  /\ WorkerUp(w)
  /\ wstate' = [wstate EXCEPT ![w] = IF Waited(w) THEN how ELSE "gone"]
  /\ wcode' = [wcode EXCEPT ![w] = IF Waited(w) THEN c ELSE 0]
  /\ workerLock' = IF workerLock = ByWorker(w) THEN Free ELSE workerLock
  /\ hist' = [d \in Daemons |->
                IF workerLock = ByWorker(w) /\ InWindow(d)
                  THEN [hist[d] EXCEPT !.relInWindow = TRUE]
                  ELSE hist[d]]
  /\ UNCHANGED <<pc, daemonLock, elapsed, wakeAt, chan, exit_code, ret, mon,
                 srv>>
  /\ UNCHANGED pathVars

WorkerExit(w) == \E c \in WorkerCodes : WorkerEnds(w, "exited", c)

WorkerKilled(w) == WorkerEnds(w, "killed", 0)

(* ------------- extract_runtime, espanso-path/src/helper.rs ------------- *)
NoDir == "none"

(* get_default_runtime_path() and the directories the other sources of the *)
(* runtime directory may name; each source may also name the default one.  *)
DefaultPath == "default"
OverrideDirs == {"forced", DefaultPath}
EstablishedDirs == {"env", DefaultPath}
PortableDirs == {"portable"}
AllDirs == OverrideDirs \cup EstablishedDirs \cup PortableDirs

(* lines 6-7: if let Some(runtime_dir) = force_runtime_dir.                *)
ExtractOverride ==
  /\ rpc = "call"
  /\ IF force_runtime_dir # NoDir
       THEN /\ runtime_dir' = force_runtime_dir
            /\ rpc' = "bound"
       ELSE /\ rpc' = "established"
            /\ UNCHANGED runtime_dir
  /\ UNCHANGED <<force_runtime_dir, established, portable, portable_path,
                 dirs, made, result>>
  /\ UNCHANGED daemonVars

(* lines 8-9: else if let Some(runtime_dir) = get_runtime_dir().           *)
ExtractEstablished ==
  /\ rpc = "established"
  /\ IF established # NoDir
       THEN /\ runtime_dir' = established
            /\ rpc' = "bound"
       ELSE /\ rpc' = "default"
            /\ UNCHANGED runtime_dir
  /\ UNCHANGED <<force_runtime_dir, established, portable, portable_path,
                 dirs, made, result>>
  /\ UNCHANGED daemonVars

(* lines 12-16: the default; get_portable_runtime_path().expect(..)        *)
(* panics when portable mode has no path.                                  *)
ExtractDefault ==
  /\ rpc = "default"
  /\ IF ~portable
       THEN /\ runtime_dir' = DefaultPath
            /\ rpc' = "create"
       ELSE IF portable_path # NoDir
         THEN /\ runtime_dir' = portable_path
              /\ rpc' = "create"
         ELSE /\ rpc' = "panic_path"
              /\ UNCHANGED runtime_dir
  /\ UNCHANGED <<force_runtime_dir, established, portable, portable_path,
                 dirs, made, result>>
  /\ UNCHANGED daemonVars

(* line 18: create_dir_all(&runtime_dir).expect(..): the directory exists  *)
(* afterwards, or the call fails and the process panics.  A directory that *)
(* exists already is no failure.                                           *)
CreateDirAll ==
  /\ rpc = "create"
  /\ made' = made \cup {runtime_dir}
  /\ \E ok \in BOOLEAN :
       IF ok \/ runtime_dir \in dirs
         THEN /\ dirs' = dirs \cup {runtime_dir}
              /\ rpc' = "bound"
         ELSE /\ rpc' = "panic_create"
              /\ UNCHANGED dirs
  /\ UNCHANGED <<force_runtime_dir, established, portable, portable_path,
                 runtime_dir, result>>
  /\ UNCHANGED daemonVars

(* lines 6-21: the body of extract_runtime is the statement                *)
(* `let runtime_dir = ...;` and nothing after it: the block has no tail    *)
(* expression, its value is (), and the local runtime_dir is dropped.      *)
BodyValue(local) == "unit"

ExtractEnd ==
  /\ rpc = "bound"
  /\ result' = BodyValue(runtime_dir)
  /\ rpc' = "returned"
  /\ UNCHANGED <<force_runtime_dir, established, portable, portable_path,
                 dirs, made, runtime_dir>>
  /\ UNCHANGED daemonVars

(* No call of extract_runtime is in progress.                              *)
PathIdle ==
  /\ rpc = "idle"
  /\ force_runtime_dir = NoDir
  /\ established = NoDir
  /\ portable = FALSE
  /\ portable_path = NoDir
  /\ dirs = {}
  /\ made = {}
  /\ runtime_dir = NoDir
  /\ result = NoDir

(* A call of extract_runtime, on any argument and in any environment.      *)
PathCall ==
  /\ rpc = "call"
  /\ force_runtime_dir \in {NoDir} \cup OverrideDirs
  /\ established \in {NoDir} \cup EstablishedDirs
  /\ portable \in BOOLEAN
  /\ portable_path \in {NoDir} \cup PortableDirs
  /\ dirs \in SUBSET AllDirs
  /\ made = {}
  /\ runtime_dir = NoDir
  /\ result = NoDir

(* ---------------------------- specification ---------------------------- *)
Next ==
  \/ \E d \in Daemons : AcquireDaemonLock(d)
  \/ \E d \in Daemons : CreateIpcClient(d)
  \/ \E d \in Daemons : ProbeWorkerLock(d)
  \/ \E d \in Daemons : SendExit(d)
  \/ \E d \in Daemons : LoopCheck(d)
  \/ \E d \in Daemons : PollWorkerLock(d)
  \/ \E d \in Daemons : WakeUp(d)
  \/ Tick
  \/ \E d \in Daemons : ReturnFromTerminate(d)
  \/ \E d \in Daemons : SpawnWorker(d)
  \/ \E d \in Daemons : IpcInit(d)
  \/ \E d \in Daemons : Recv(d)
  \/ \E d \in Daemons : Return(d)
  \/ \E d \in Daemons : ProcessExit(d)
  \/ \E d \in Daemons : MonitorWait(d)
  \/ \E d \in Daemons : MonitorWaitFails(d)
  \/ \E d \in Daemons : IpcOnExit(d)
  \/ \E d \in Daemons : IpcServerStops(d)
  \/ \E w \in Workers : WorkerAcquireLock(w)
  \/ \E w \in Workers : WorkerExit(w)
  \/ \E w \in Workers : WorkerKilled(w)

Init == DaemonInit /\ PathIdle

Spec == Init /\ [][Next]_vars

(* The threads of a daemon that runs keep being scheduled, and time goes   *)
(* by.  Nothing is assumed of the workers, of the peers that send Exit     *)
(* events, of the IPC server's endpoint or of when a daemon is started.    *)
MainThread(d) ==
  \/ CreateIpcClient(d)
  \/ ProbeWorkerLock(d)
  \/ SendExit(d)
  \/ LoopCheck(d)
  \/ PollWorkerLock(d)
  \/ WakeUp(d)
  \/ ReturnFromTerminate(d)
  \/ SpawnWorker(d)
  \/ IpcInit(d)
  \/ Recv(d)
  \/ Return(d)

FairSpec ==
  /\ Spec
  /\ WF_vars(Tick)
  /\ \A d \in Daemons : WF_vars(MainThread(d))
  /\ \A d \in Daemons : WF_vars(MonitorWait(d))

(* The resolver on its own: the call happens at startup, before            *)
(* daemon_main.                                                            *)
PathInit == DaemonInit /\ PathCall

PathNext ==
  \/ ExtractOverride
  \/ ExtractEstablished
  \/ ExtractDefault
  \/ CreateDirAll
  \/ ExtractEnd

PathSpec == PathInit /\ [][PathNext]_vars

(* ============================== properties ============================= *)
(* The values the monitor thread / the IPC server put on the channel.      *)
MonVals(d) == SelectSeq(hist[d].sentLog, LAMBDA e : e[1] = "mon")
IpcVals(d) == SelectSeq(hist[d].sentLog, LAMBDA e : e[1] = "ipc")

(* The run went through terminate_worker_if_already_running and on.        *)
PastSpawn == {"ipcinit", "wait", "break", "returned"}
InRetire == {"send", "loop", "poll", "sleep"}

(* C1: a run of daemon_main that finds the daemon lock held returns 1 at   *)
(* once: it has created no IPC client, never tried the worker lock, sent   *)
(* no Exit, spawned no worker, started no monitor and no IPC server.       *)
C1_DeniedReturnsOne ==
  \A d \in Daemons :
    hist[d].denied =>
      /\ pc[d] = "returned"
      /\ ret[d] = AlreadyRunning
      /\ daemonLock # d
      /\ ~hist[d].clientCreated
      /\ hist[d].first = "none"
      /\ hist[d].exitSent = 0
      /\ hist[d].spawnCalls = 0 /\ hist[d].spawned = 0
      /\ wstate[d] = "none" /\ mon[d] = "none"
      /\ ~hist[d].serverStarted /\ srv[d] = "none"

C1_Witness ==
  \E d \in Daemons :
    /\ hist[d].denied /\ pc[d] = "returned" /\ ret[d] = AlreadyRunning
    /\ \E e \in Daemons : e # d /\ daemonLock = e

(* C2: at no time are two worker processes running (spawned and not yet    *)
(* ended) for the same runtime directory, in the runs in which daemons     *)
(* start and exit and workers start, take the worker lock and exit (no     *)
(* daemon has panicked).                                                   *)
C2_AtMostOneWorkerRunning ==
  (\A d \in Daemons : pc[d] \notin PanicStates \cup {"crashed"}) =>
    Cardinality({w \in Workers : WorkerUp(w)}) <= 1

(* C3: a run whose first attempt to acquire the worker lock succeeded      *)
(* sends no Exit event, before the spawn or after.                         *)
C3_NoExitWhenLockFree ==
  \A d \in Daemons :
    hist[d].first = "acquired" =>
      hist[d].exitSent = 0 /\ hist[d].sendRes = "none"

C3_Witness ==
  \E d \in Daemons :
    /\ hist[d].first = "acquired" /\ hist[d].spawned = 1
    /\ pc[d] \in PastSpawn /\ hist[d].exitSent = 0

(* C4, as claimed: when the first attempt was denied and the worker lock   *)
(* was released at some moment of the 3 s window, the daemon does not      *)
(* abort on the timeout.                                                   *)
C4_ReleaseInWindowNeverAborts ==
  \A d \in Daemons :
    (hist[d].first = "denied" /\ hist[d].relInWindow) => pc[d] # "panic_timeout"

(* C4, amended: when the first attempt was denied and one of the poll      *)
(* attempts of the loop got the lock, the daemon does not abort on the     *)
(* timeout, goes on to spawn_worker, calls it once and never has more than *)
(* one worker spawned (exactly one once spawn_worker has returned).        *)
C4_PollAcquiredSpawnsOne ==
  \A d \in Daemons :
    hist[d].pollAcquired =>
      /\ hist[d].first = "denied"
      /\ pc[d] \notin InRetire \cup {"panic_timeout"}
      /\ hist[d].spawnCalls <= 1 /\ hist[d].spawned <= 1
      /\ pc[d] \in {"poll_return", "spawn"} => hist[d].spawnCalls = 0
      /\ pc[d] \in PastSpawn => hist[d].spawnCalls = 1 /\ hist[d].spawned = 1

C4_Witness ==
  \E d \in Daemons :
    /\ hist[d].first = "denied" /\ hist[d].relInWindow /\ hist[d].pollAcquired
    /\ pc[d] = "wait" /\ hist[d].spawned = 1 /\ WorkerUp(d)

(* C5: when the first attempt was denied and no poll attempt of the window *)
(* got the lock, the run ends in the panic of line 136, after the Exit was *)
(* sent once and the 3 s were over; no worker is spawned, no monitor and   *)
(* no IPC server started, and daemon_main returns nothing.                 *)
C5_TimeoutAborts ==
  \A d \in Daemons :
    /\ (hist[d].first = "denied" /\ ~hist[d].pollAcquired /\ pc[d] \notin InRetire)
         => pc[d] = "panic_timeout"
    /\ pc[d] = "panic_timeout" =>
         /\ hist[d].first = "denied" /\ ~hist[d].pollAcquired
         /\ hist[d].exitSent = 1
         /\ elapsed[d] >= RetryWindowMs
         /\ hist[d].spawnCalls = 0 /\ hist[d].spawned = 0
         /\ wstate[d] = "none" /\ mon[d] = "none"
         /\ ~hist[d].serverStarted /\ srv[d] = "none"
         /\ daemonLock # d

C5_Witness ==
  \E d \in Daemons :
    /\ pc[d] = "panic_timeout" /\ hist[d].exitSent = 1
    /\ ~hist[d].relInWindow /\ ~WorkerLockFree

(* C6, as claimed: a monitor thread that saw its worker exit with code 0   *)
(* has put nothing on the channel, one that saw it exit with N # 0 has put *)
(* exactly the one value N.                                                *)
C6_MonitorForwardsExactly ==
  \A d \in Daemons :
    (mon[d] \in {"done", "panicked"} /\ wstate[d] = "exited") =>
      MonVals(d) = IF wcode[d] = 0 THEN <<>> ELSE << <<"mon", wcode[d]>> >>

(* C6, amended: the monitor puts nothing on the channel when the worker    *)
(* exits with code 0 and exactly the one value N when it exits with N # 0  *)
(* while the receiver exists; after daemon_main has returned the send      *)
(* fails, the thread panics and nothing is put on the channel.             *)
C6_MonitorForwardsWhileReceiver ==
  \A d \in Daemons :
    /\ Len(MonVals(d)) <= 1
    /\ mon[d] \in {"none", "waiting", "failed", "dead", "panicked"} => MonVals(d) = <<>>
    /\ mon[d] = "panicked" =>
         wstate[d] = "exited" /\ wcode[d] # 0 /\ pc[d] = "returned"
    /\ (mon[d] = "done" /\ wstate[d] = "exited") =>
         MonVals(d) = IF wcode[d] = 0 THEN <<>> ELSE << <<"mon", wcode[d]>> >>
    /\ (mon[d] = "done" /\ wstate[d] = "killed") => MonVals(d) = <<>>

C6_Witness ==
  \E d \in Daemons :
    /\ mon[d] = "done" /\ wstate[d] = "exited" /\ wcode[d] = 7
    /\ MonVals(d) = << <<"mon", 7>> >> /\ 7 \in {chan[d][i] : i \in 1..Len(chan[d])}

(* C7, as claimed: when the monitor forwarded the code N # 0 of the worker *)
(* before daemon_main returned, daemon_main returns N.                     *)
C7_ReturnsWorkerCode ==
  \A d \in Daemons :
    (pc[d] = "returned" /\ MonVals(d) # <<>>) => ret[d] = MonVals(d)[1][2]

(* C7, amended: daemon_main returns the code N # 0 of the worker when N is *)
(* the first value put on the channel; when the IPC server put its value   *)
(* first, daemon_main returns that value.                                  *)
C7_ReturnsFirstSent ==
  \A d \in Daemons :
    (pc[d] = "returned" /\ hist[d].sentLog # <<>>) =>
      /\ ret[d] = hist[d].sentLog[1][2]
      /\ hist[d].sentLog[1][1] = "mon" =>
           ret[d] = wcode[d] /\ ret[d] # 0 /\ wstate[d] = "exited"

C7_Witness ==
  \E d \in Daemons :
    /\ pc[d] = "returned" /\ ret[d] = 7 /\ wcode[d] = 7
    /\ Len(hist[d].sentLog) >= 2 /\ hist[d].sentLog[1] = <<"mon", 7>>

(* C8: while the daemon serves (the receiver exists), every Exit event the *)
(* IPC server received has put exactly one value on the channel: the       *)
(* values received or still buffered are one per event, plus what the      *)
(* monitor sent.                                                           *)
C8_OneValuePerExitEvent ==
  \A d \in Daemons :
    /\ Len(IpcVals(d)) = hist[d].served
    /\ ReceiverAlive(d) =>
         Len(hist[d].received) + Len(chan[d]) = hist[d].served + Len(MonVals(d))

C8_Witness ==
  \E d \in Daemons :
    /\ pc[d] = "wait" /\ hist[d].served = 2 /\ Len(chan[d]) = 2
    /\ MonVals(d) = <<>>

(* C9: the main loop takes one message from the channel and ends: the      *)
(* first value sent is the one received, it is the value daemon_main       *)
(* returns, and whatever is sent later stays in the channel.               *)
C9_FirstValueOnly ==
  \A d \in Daemons :
    /\ Len(hist[d].received) <= 1
    /\ pc[d] \in {"ipcinit", "wait"} => hist[d].received = <<>> /\ ~hist[d].recvErr
    /\ (pc[d] \in {"break", "returned"} /\ ~hist[d].denied) =>
         /\ Len(hist[d].received) = IF hist[d].recvErr THEN 0 ELSE 1
         /\ ~hist[d].recvErr =>
              /\ hist[d].received = << hist[d].sentLog[1][2] >>
              /\ exit_code[d] = hist[d].sentLog[1][2]
              /\ Len(chan[d]) = Len(hist[d].sentLog) - 1
              /\ pc[d] = "returned" => ret[d] = hist[d].sentLog[1][2]

C9_Witness ==
  \E d \in Daemons :
    /\ pc[d] = "returned" /\ Len(hist[d].sentLog) >= 2
    /\ ret[d] = hist[d].sentLog[1][2] /\ hist[d].sentLog[2][2] # ret[d]
    /\ chan[d] # <<>>

(* C10: when the channel is empty and every sender is gone, the main loop  *)
(* gets the channel error and daemon_main returns 100; it gets no error    *)
(* otherwise.                                                              *)
C10_DisconnectedReturns100 ==
  \A d \in Daemons :
    /\ hist[d].recvErr =>
         /\ hist[d].sentLog = <<>> /\ hist[d].received = <<>>
         /\ Disconnected(d)
         /\ exit_code[d] = ExitCodeUnwrapError
         /\ pc[d] \in {"break", "returned"}
         /\ pc[d] = "returned" => ret[d] = ExitCodeUnwrapError
    /\ (pc[d] \in {"break", "returned"} /\ ~hist[d].denied /\ hist[d].sentLog = <<>>)
         => hist[d].recvErr

C10_Witness ==
  \E d \in Daemons :
    /\ pc[d] = "returned" /\ hist[d].recvErr /\ ret[d] = ExitCodeUnwrapError
    /\ mon[d] \in {"done", "failed"} /\ srv[d] = "stopped"

(* The positions of daemon_main between the grant of the daemon lock and   *)
(* the return or the panic.                                                *)
InDaemonMain == {"create_client", "probe", "probe_return", "send", "loop",
                 "poll", "poll_return", "sleep", "spawn", "ipcinit", "wait",
                 "break"}

(* C11: a daemon that is past the acquisition of the daemon lock and has   *)
(* neither returned nor panicked holds the daemon lock; so no two daemons  *)
(* are past it at the same time.                                           *)
C11_DaemonLockHeldThroughout ==
  /\ \A d \in Daemons : pc[d] \in InDaemonMain => daemonLock = d
  /\ Cardinality({d \in Daemons : pc[d] \in InDaemonMain}) <= 1

C11_Witness ==
  \E d, e \in Daemons :
    /\ d # e /\ pc[d] = "wait" /\ daemonLock = d
    /\ hist[e].denied /\ pc[e] = "returned"

(* C12: spawn_worker is reached only by a run that itself got the worker   *)
(* lock, at the first attempt or at a poll attempt after the Exit; never   *)
(* by a run all of whose attempts were denied.                             *)
AtOrPastSpawn(d) ==
  \/ pc[d] \in ({"probe_return", "poll_return", "spawn"} \cup PastSpawn)
       /\ ~hist[d].denied
  \/ hist[d].spawnCalls > 0
  \/ hist[d].spawned > 0

C12_SpawnOnlyAfterAcquire ==
  \A d \in Daemons :
    AtOrPastSpawn(d) =>
      \/ hist[d].first = "acquired" /\ ~hist[d].pollAcquired
      \/ hist[d].first = "denied" /\ hist[d].pollAcquired /\ hist[d].exitSent = 1

C12_Witness ==
  \E d \in Daemons :
    /\ hist[d].first = "denied" /\ hist[d].pollAcquired
    /\ hist[d].spawned = 1 /\ pc[d] = "ipcinit"

(* C13: when spawn_worker is called the daemon does not hold the worker    *)
(* lock: the handle got in terminate_worker_if_already_running is released *)
(* by its return, after the first attempt and after a poll attempt alike,  *)
(* so the daemon never stands between its worker and the lock.             *)
C13_WorkerLockReleasedBeforeSpawn ==
  \A d \in Daemons :
    /\ ~hist[d].heldAtSpawn
    /\ pc[d] \in ({"spawn"} \cup PastSpawn \cup PanicStates) => workerLock # ByDaemon(d)
    /\ workerLock = ByDaemon(d) => pc[d] \in {"probe_return", "poll_return"}

C13_Witness ==
  \E d \in Daemons :
    /\ hist[d].pollAcquired /\ hist[d].spawned = 1 /\ ~hist[d].heldAtSpawn
    /\ wstate[d] = "running" /\ workerLock = ByWorker(d)

(* The live LockHandles, by the position of their owners: lock_file of     *)
(* daemon_main (line 63), lock_file of                                     *)
(* terminate_worker_if_already_running (lines 113, 128) between the        *)
(* acquire and the return, and the handle of a worker that took the lock.  *)
DaemonHandles == {d \in Daemons : pc[d] \in InDaemonMain}
WorkerHandles ==
  {ByDaemon(d) : d \in {e \in Daemons : pc[e] \in {"probe_return", "poll_return"}}}
    \cup {ByWorker(w) : w \in {v \in Workers : wstate[v] = "running"}}

(* An acquire of the worker lock by daemon d, and its outcome.             *)
WorkerAcquireStep(d) == pc[d] \in {"probe", "poll"} /\ pc'[d] # pc[d]
WorkerAcquireGranted(d) == pc'[d] \in {"probe_return", "poll_return"}
DaemonAcquireStep(d) == pc[d] = "start" /\ pc'[d] # pc[d]

(* C14: for each lock name at most one LockHandle is live; an acquire      *)
(* never blocks, returns None exactly while a handle is live and succeeds  *)
(* again once the live handle was released.                                *)
C14_OneLiveHandlePerLock ==
  /\ [](/\ Cardinality(DaemonHandles) <= 1
        /\ Cardinality(WorkerHandles) <= 1
        /\ DaemonHandles = IF daemonLock = 0 THEN {} ELSE {daemonLock}
        /\ WorkerHandles = IF workerLock = Free THEN {} ELSE {workerLock}
        /\ \A d \in Daemons :
             /\ pc[d] = "probe" => ENABLED ProbeWorkerLock(d)
             /\ pc[d] = "poll" => ENABLED PollWorkerLock(d))
  /\ [][\A d \in Daemons :
          /\ WorkerAcquireStep(d) => (WorkerAcquireGranted(d) <=> WorkerHandles = {})
          /\ DaemonAcquireStep(d) => (pc'[d] = "create_client" <=> DaemonHandles = {})
          /\ DaemonAcquireStep(d) => (hist'[d].denied <=> DaemonHandles # {})]_vars

C14_Witness ==
  \E d \in Daemons :
    /\ hist[d].first = "denied" /\ hist[d].pollAcquired
    /\ pc[d] = "poll_return" /\ WorkerHandles = {ByDaemon(d)}
    /\ \E e \in Daemons : hist[e].denied

(* ---------------------------------------------------------------------- *)
(* C15: when the first attempt on the worker lock is denied, the daemon    *)
(* sends the Exit event exactly once: none before the send step, one       *)
(* after it, never a second.  Whatever the send returns, the step leaves    *)
(* the daemon at the head of the retry loop with a fresh window and no      *)
(* poll made yet, and the daemon aborts only after polling until the        *)
(* window has closed; a daemon that acquired at the first attempt sends     *)
(* nothing.                                                                 *)
SendStep(d) == pc[d] = "send" /\ pc'[d] # "send"

C15_SendsExitOnce ==
  /\ [](\A d \in Daemons :
          /\ hist[d].exitSent <= 1
          /\ (hist[d].exitSent = 1) <=> (hist[d].sendRes # "none")
          /\ hist[d].first = "acquired" => hist[d].exitSent = 0
          /\ pc[d] = "send" => hist[d].first = "denied" /\ hist[d].exitSent = 0
          /\ (hist[d].first = "denied" /\ pc[d] \notin {"probe", "send"})
               => hist[d].exitSent = 1
          /\ pc[d] = "panic_timeout"
               => hist[d].polls >= 1 /\ ~WindowOpen(elapsed[d]))
  /\ [][\A d \in Daemons :
          SendStep(d) => /\ pc'[d] = "loop"
                         /\ elapsed'[d] = 0
                         /\ hist'[d].polls = 0
                         /\ hist'[d].exitSent = 1
                         /\ hist'[d].sendRes \in {"ok", "err"}]_vars

(* A daemon whose send failed has polled, found the lock and spawned.      *)
C15_Witness ==
  \E d \in Daemons :
    /\ hist[d].sendRes = "err"
    /\ hist[d].exitSent = 1
    /\ hist[d].pollAcquired
    /\ hist[d].spawned = 1

(* ---------------------------------------------------------------------- *)
(* C16: the runtime directory is resolved with the priority override,      *)
(* established directory, default (portable path in portable mode, the     *)
(* standard path otherwise); a directory is created only in the default    *)
(* branch; and the resolved path is returned to the caller.                *)
DefaultBranch == force_runtime_dir = NoDir /\ established = NoDir

Resolved ==
  IF force_runtime_dir # NoDir THEN force_runtime_dir
  ELSE IF established # NoDir THEN established
  ELSE IF portable THEN portable_path
  ELSE DefaultPath

(* The part of C16 about the priority and the creation, without the        *)
(* return.                                                                 *)
PriorityAndCreation ==
  /\ made # {} => DefaultBranch
  /\ rpc \in {"bound", "returned"}
       => /\ runtime_dir = Resolved
          /\ made = IF DefaultBranch THEN {Resolved} ELSE {}
          /\ DefaultBranch => Resolved \in dirs

C16_ResolvedPathReturned ==
  /\ PriorityAndCreation
  /\ rpc = "returned" => result = Resolved

(* ---------------------------------------------------------------------- *)
(* C17: terminate_worker_if_already_running always terminates.  A call     *)
(* makes one first attempt (its outcome is fixed once made), at most one   *)
(* Exit send and at most one poll per 200 ms step of the 3 s window; and   *)
(* a daemon inside the call always leaves it, by a return or by the abort, *)
(* whatever the workers do.                                                *)
InTerminate(d) ==
  pc[d] \in {"probe", "probe_return", "send", "loop", "poll", "poll_return",
             "sleep"}

MaxPolls == RetryWindowMs \div SleepMs

C17_TerminateTerminates ==
  /\ [](\A d \in Daemons :
          /\ hist[d].polls <= MaxPolls
          /\ hist[d].exitSent <= 1
          /\ pc[d] \in {"loop", "poll", "sleep"}
               => hist[d].polls <= elapsed[d] \div SleepMs + 1
          /\ (InTerminate(d) /\ pc[d] # "probe") => hist[d].first # "none")
  /\ [][\A d \in Daemons :
          (InTerminate(d) /\ hist[d].first # "none")
            => hist'[d].first = hist[d].first]_vars
  /\ \A d \in Daemons : InTerminate(d) ~> ~InTerminate(d)

(* A call that polled as often as the window allows, and then aborted.     *)
C17_Witness ==
  \E d \in Daemons :
    /\ pc[d] = "panic_timeout"
    /\ hist[d].polls = MaxPolls
    /\ hist[d].exitSent = 1

(* ---------------------------------------------------------------------- *)
(* C18: a non-zero worker exit that the monitor thread sees before the     *)
(* main thread waits on the channel (while the IPC server is being         *)
(* started) is not lost.  The monitor's send puts the code on the channel, *)
(* where it stays at the head until the main loop takes it; and unless     *)
(* the start of the IPC server fails, daemon_main eventually returns that  *)
(* received code.                                                          *)
MonitorWaitStep(d) == mon[d] = "waiting" /\ mon'[d] \in {"done", "panicked"}

EarlyExit(d) == pc[d] = "ipcinit" /\ wstate[d] = "exited" /\ wcode[d] # 0

C18_EarlyExitNotLost ==
  /\ [][\A d \in Daemons :
          (MonitorWaitStep(d) /\ EarlyExit(d))
            => /\ mon'[d] = "done"
               /\ chan'[d] = <<wcode[d]>>
               /\ hist'[d].early]_vars
  /\ [](\A d \in Daemons :
          (hist[d].early /\ pc[d] \in {"ipcinit", "wait"})
            => /\ chan[d] # <<>>
               /\ MonVals(d) # <<>>
               /\ <<"mon", Head(chan[d])>> = MonVals(d)[1]
               /\ Head(chan[d]) # 0
               /\ hist[d].received = <<>>)
  /\ \A d \in Daemons :
       (hist[d].early /\ pc[d] = "ipcinit")
         ~> \/ pc[d] = "panic_ipc"
            \/ /\ pc[d] = "returned"
               /\ hist[d].received # <<>>
               /\ MonVals(d) # <<>>
               /\ <<"mon", ret[d]>> = MonVals(d)[1]
               /\ ret[d] # 0

(* A run whose worker failed while the IPC server was being started and    *)
(* which returned the worker's code.                                       *)
C18_Witness ==
  \E d \in Daemons :
    /\ hist[d].early
    /\ hist[d].serverStarted
    /\ pc[d] = "returned"
    /\ hist[d].received # <<>>
    /\ <<"mon", ret[d]>> = MonVals(d)[1]

(* ---------------------------------------------------------------------- *)
(* C19 as stated: a monitor thread that ended without sending leaves the   *)
(* daemon waiting until some other producer sends a value, so a run that   *)
(* left the main loop after it has received a value.                       *)
MonitorEnds(d) == mon[d] = "waiting" /\ mon'[d] \in {"done", "failed", "panicked"}

NoCode(d) == wstate[d] = "killed"

Silent(d) == mon[d] \in {"done", "failed"} /\ MonVals(d) = <<>>

C19_WaitsForAProducer ==
  \A d \in Daemons :
    (Silent(d) /\ pc[d] \in {"break", "returned"}) => hist[d].received # <<>>

(* C19, amended: when the worker ends without an exit code or waiting on   *)
(* the child fails, the monitor thread sends nothing and ends; the daemon  *)
(* then waits in the main loop, its worker not running, and cannot go on   *)
(* while the channel is empty and the IPC server holds its sender; it      *)
(* leaves the loop only with a value the IPC server sent or, once the IPC  *)
(* server has dropped its sender too, with the channel error.              *)
C19_SilentMonitorLeavesDaemonWaiting ==
  /\ [][\A d \in Daemons :
          (MonitorEnds(d) /\ (NoCode(d) \/ mon'[d] = "failed"))
            => /\ mon'[d] \in {"done", "failed"}
               /\ chan'[d] = chan[d]
               /\ hist'[d].sentLog = hist[d].sentLog]_vars
  /\ [](\A d \in Daemons :
          (Silent(d) /\ pc[d] = "wait")
            => /\ ~WorkerUp(d)
               /\ Len(hist[d].received) + Len(chan[d]) = Len(IpcVals(d))
               /\ (chan[d] = <<>> /\ srv[d] = "running") => ~ENABLED Recv(d))
  /\ [][\A d \in Daemons :
          (Silent(d) /\ pc[d] = "wait" /\ pc'[d] # "wait")
            => /\ pc'[d] = "break"
               /\ \/ /\ chan[d] # <<>>
                     /\ <<"ipc", exit_code'[d]>> = IpcVals(d)[1]
                     /\ hist'[d].received = <<exit_code'[d]>>
                  \/ /\ chan[d] = <<>>
                     /\ srv[d] # "running"
                     /\ exit_code'[d] = ExitCodeUnwrapError
                     /\ hist'[d].received = <<>>]_vars

(* A run whose worker was killed, whose monitor ended in silence, and      *)
(* which returned the value of a later Exit event.                         *)
C19_Witness ==
  \E d \in Daemons :
    /\ NoCode(d)
    /\ Silent(d)
    /\ pc[d] = "returned"
    /\ hist[d].received # <<>>

(* ---------------------------------------------------------------------- *)
(* C20: one run of daemon_main calls spawn_worker at most once, so it      *)
(* spawns at most one worker and starts at most one monitor thread.  Once  *)
(* the worker has exited with code 0 the monitor sends nothing, no worker  *)
(* is spawned in its place, and the daemon stays in the main loop while    *)
(* the channel is empty and the IPC server runs: it leaves the loop only   *)
(* with the value of an Exit event or with the channel error.              *)
ZeroExit(d) == wstate[d] = "exited" /\ wcode[d] = 0

C20_NoRespawn ==
  /\ [](\A d \in Daemons :
          /\ hist[d].spawnCalls <= 1
          /\ hist[d].spawned <= hist[d].spawnCalls
          /\ hist[d].monitors <= hist[d].spawned
          /\ ReceiverAlive(d) => hist[d].spawned = 1 /\ hist[d].monitors = 1
          /\ (ZeroExit(d) /\ mon[d] # "waiting") => MonVals(d) = <<>>
          /\ (ZeroExit(d) /\ pc[d] = "wait" /\ chan[d] = <<>>
                /\ srv[d] = "running") => ~ENABLED Recv(d))
  /\ [][\A d \in Daemons :
          ZeroExit(d)
            => /\ wstate'[d] \in {"exited", "gone"}
               /\ hist'[d].spawned <= hist[d].spawned
               /\ hist'[d].monitors <= hist[d].monitors
               /\ MonVals(d)' = <<>>]_vars
  /\ [][\A d \in Daemons :
          (ZeroExit(d) /\ pc[d] = "wait" /\ pc'[d] # "wait")
            => \/ /\ hist'[d].received # <<>>
                  /\ <<"ipc", exit_code'[d]>> \in {IpcVals(d)[i] : i \in 1..Len(IpcVals(d))}
               \/ /\ hist'[d].recvErr
                  /\ exit_code'[d] = ExitCodeUnwrapError]_vars

(* A run whose worker exited with 0 and which went on waiting until an     *)
(* Exit event ended it.                                                    *)
C20_Witness ==
  \E d \in Daemons :
    /\ ZeroExit(d)
    /\ mon[d] = "done"
    /\ hist[d].spawned = 1
    /\ hist[d].monitors = 1
    /\ pc[d] = "returned"
    /\ hist[d].received # <<>>

====
